---- MODULE Spec2Model ----
(***************************************************************************)
(* A model of the cuxfilter dashboard agent: the experiment log            *)
(* (src/src/tools/viz_exp_store.py), the code executor                     *)
(* (src/src/viz_code_executor.py), the code generator                      *)
(* (src/src/viz_code_generator.py), the orchestrator (src/src/viz_tools.py)*)
(* and the chat agent (src/src/viz_chat_agent.py).                         *)
(*                                                                         *)
(* Python values are modelled as records [t, s, n, items]: t is the type,  *)
(* s a textual payload, n a numeric payload and items the children (the    *)
(* elements of a list, tuple or set, the key/value pairs of a dict, or the *)
(* value a string was rendered from).                                      *)
(***************************************************************************)
EXTENDS Integers, Sequences, FiniteSets, TLC

VARIABLES
    runs_file,      \* VizExperimentStore.runs_file: the lines of the JSONL log
    export_file,    \* the file written by export_experiments_to_json
    clock,          \* the wall clock read by time.time() / datetime.now()
    global_state,   \* VizTools.global_state: the persistent namespace
    exec_df,        \* VizCodeExecutor.df
    exec_cux_df,    \* VizCodeExecutor.cux_df
    conversation,   \* VizChatAgent.conversation
    data_loaded,    \* VizChatAgent.data_loaded
    uploaded_files, \* VizChatAgent.uploaded_files
    calls,          \* how many times VizTools.execute_tool has been invoked
    turns,          \* how many times VizChatAgent.chat has been called
    last            \* the last call made: its operation, inputs and outcome

vars == <<runs_file, export_file, clock, global_state, exec_df, exec_cux_df,
          conversation, data_loaded, uploaded_files, calls, turns, last>>

(***************************************************************************)
(* Bounds of the model.                                                    *)
(***************************************************************************)
\* longest log the store specification writes
MaxLog == 2
\* most execute_tool invocations in one session
MaxCalls == 2
\* most statements of a generated program before it ends
MaxStmts == 2
\* latest reading of the clock
MaxClock == 1
\* most chat turns in one conversation
MaxTurns == 2

(***************************************************************************)
(* Python values.                                                          *)
(***************************************************************************)
PyNone == [t |-> "None", s |-> "", n |-> 0, items |-> <<>>]
Str(text) == [t |-> "str", s |-> text, n |-> 0, items |-> <<>>]
Num(k) == [t |-> "num", s |-> "", n |-> k, items |-> <<>>]
Bool(b) == [t |-> "bool", s |-> "", n |-> IF b THEN 1 ELSE 0, items |-> <<>>]
List(elems) == [t |-> "list", s |-> "", n |-> 0, items |-> elems]
Tuple(elems) == [t |-> "tuple", s |-> "", n |-> 0, items |-> elems]
PySet(elems) == [t |-> "set", s |-> "", n |-> 0, items |-> elems]
\* a dict keeps its pairs <<[k |-> key, v |-> value], ...>> in insertion order
Dict(pairs) == [t |-> "dict", s |-> "", n |-> 0, items |-> pairs]
\* an object json cannot serialize: a dashboard, a DataFrame, a chart
Obj(name) == [t |-> "object", s |-> name, n |-> 0, items |-> <<>>]
\* an object with a dtype attribute (numpy / pandas / cudf)
NdArray(name) == [t |-> "ndarray", s |-> name, n |-> 0, items |-> <<>>]
\* an object with an isoformat method (datetime, date)
DateTime(name) == [t |-> "datetime", s |-> name, n |-> 0, items |-> <<>>]
\* the string str(v) returns
StrOf(v) == [t |-> "str", s |-> "str()", n |-> 0, items |-> <<v>>]
\* the string v.isoformat() returns
IsoFormat(v) == [t |-> "str", s |-> "isoformat()", n |-> 0, items |-> <<v>>]
\* time.strftime("%Y-%m-%d %H:%M:%S") at clock reading k
StrfTime(k) == [t |-> "str", s |-> "%Y-%m-%d %H:%M:%S", n |-> k, items |-> <<>>]
Pair(key, val) == [k |-> key, v |-> val]

IsTruthy(v) ==
    CASE v.t = "None" -> FALSE
      [] v.t = "bool" -> v.n = 1
      [] v.t = "num" -> v.n # 0
      [] v.t = "str" -> ~(v.s = "" /\ v.items = <<>>)
      [] v.t \in {"list", "tuple", "set", "dict"} -> v.items # <<>>
      [] OTHER -> TRUE

DictHas(d, key) == \E i \in 1..Len(d.items) : d.items[i].k = key

\* d.get(key, default)
DictGet(d, key, default) ==
    IF DictHas(d, key)
    THEN d.items[CHOOSE i \in 1..Len(d.items) : d.items[i].k = key].v
    ELSE default

\* d[key] = val
DictSet(d, key, val) ==
    IF DictHas(d, key)
    THEN Dict([i \in 1..Len(d.items) |->
                 IF d.items[i].k = key THEN Pair(key, val) ELSE d.items[i]])
    ELSE Dict(Append(d.items, Pair(key, val)))

Min(a, b) == IF a < b THEN a ELSE b
Max(a, b) == IF a > b THEN a ELSE b

(***************************************************************************)
(* json.dumps and json.loads.                                              *)
(***************************************************************************)
\* json.dumps accepts v: None, bool, number, str, and lists, tuples and dicts
\* of such values whose keys are str, int, float, bool or None.
RECURSIVE JsonSerializable(_)
JsonSerializable(v) ==
    CASE v.t \in {"None", "bool", "num", "str"} -> TRUE
      [] v.t \in {"list", "tuple"} ->
            \A i \in 1..Len(v.items) : JsonSerializable(v.items[i])
      [] v.t = "dict" ->
            \A i \in 1..Len(v.items) :
                /\ v.items[i].k.t \in {"None", "bool", "num", "str"}
                /\ JsonSerializable(v.items[i].v)
      [] OTHER -> FALSE

\* The document json.loads reads back from json.dumps(v): a tuple comes back as
\* a list and a key that is not a string as its string form.
RECURSIVE JsonRoundTrip(_)
JsonRoundTrip(v) ==
    CASE v.t \in {"list", "tuple"} ->
            List([i \in 1..Len(v.items) |-> JsonRoundTrip(v.items[i])])
      [] v.t = "dict" ->
            Dict([i \in 1..Len(v.items) |->
                    Pair(IF v.items[i].k.t = "str" THEN v.items[i].k
                         ELSE StrOf(v.items[i].k),
                         JsonRoundTrip(v.items[i].v))])
      [] OTHER -> v

\* one line of the log: json.dumps(doc) + "\n"
JsonLine(doc) == [parseable |-> TRUE, doc |-> JsonRoundTrip(doc)]

\* a line of text json.loads rejects with JSONDecodeError
CorruptLine == [parseable |-> FALSE, doc |-> Str("{not json")]
\* a line that is empty once stripped
BlankLine == [parseable |-> FALSE, doc |-> Str("")]

(***************************************************************************)
(* VizExperimentStore.                                                     *)
(***************************************************************************)
RECURSIVE make_serializable(_)
make_serializable(obj) ==
    CASE obj.t = "dict" ->
            Dict([i \in 1..Len(obj.items) |->
                    Pair(obj.items[i].k, make_serializable(obj.items[i].v))])
      [] obj.t = "list" ->
            List([i \in 1..Len(obj.items) |-> make_serializable(obj.items[i])])
      [] obj.t = "ndarray" -> StrOf(obj)
      [] obj.t = "datetime" -> IsoFormat(obj)
      [] OTHER -> IF JsonSerializable(obj) THEN obj ELSE StrOf(obj)

\* experiment_data after the two stamps and make_serializable
StampedRecord(experiment_data, now) ==
    make_serializable(
        DictSet(DictSet(experiment_data, Str("timestamp"), Num(now)),
                Str("date"), StrfTime(now)))

\* json.dumps(experiment_data) raises TypeError
SaveRaises(experiment_data, now) ==
    ~JsonSerializable(StampedRecord(experiment_data, now))

\* the log had it been opened with "w": the new line replaces what was there
AppendLineTruncating(file, experiment_data, now) ==
    <<JsonLine(StampedRecord(experiment_data, now))>>

\* the log had the line been written twice
AppendLineTwice(file, experiment_data, now) ==
    file \o <<JsonLine(StampedRecord(experiment_data, now)),
              JsonLine(StampedRecord(experiment_data, now))>>

\* the log after open("a") and write(json.dumps(...) + "\n")
AppendLine(file, experiment_data, now) ==
    Append(file, JsonLine(StampedRecord(experiment_data, now)))

\* the log after save_experiment(experiment_data) at clock reading now
save_experiment(file, experiment_data, now) ==
    IF SaveRaises(experiment_data, now) THEN file
    ELSE AppendLine(file, experiment_data, now)

\* a read that gives up at the first line it cannot parse
RECURSIVE LoadUntilCorrupt(_)
LoadUntilCorrupt(file) ==
    IF file = <<>> THEN <<>>
    ELSE IF Head(file).parseable
         THEN <<Head(file).doc>> \o LoadUntilCorrupt(Tail(file))
         ELSE <<>>

RECURSIVE load_all_experiments(_)
load_all_experiments(file) ==
    IF file = <<>> THEN <<>>
    ELSE IF Head(file) = BlankLine
         THEN \* if line: an empty line is skipped
              load_all_experiments(Tail(file))
    ELSE IF Head(file).parseable
         THEN <<Head(file).doc>> \o load_all_experiments(Tail(file))
         ELSE \* except json.JSONDecodeError: continue
              load_all_experiments(Tail(file))

\* a clear that removes the newest line only
ClearNewestLine(file) == IF file = <<>> THEN <<>> ELSE SubSeq(file, 1, Len(file) - 1)

clear_all(file) == <<>>

count_experiments(file) == Len(load_all_experiments(file))

TimestampKey(x) == DictGet(x, Str("timestamp"), Num(0)).n

\* list.sort(key=..., reverse=True) is stable: x goes after every element whose
\* key is greater than or equal to its own
RECURSIVE InsertDescending(_, _)
InsertDescending(sorted, x) ==
    IF sorted = <<>> THEN <<x>>
    ELSE IF TimestampKey(Head(sorted)) >= TimestampKey(x)
         THEN <<Head(sorted)>> \o InsertDescending(Tail(sorted), x)
         ELSE <<x>> \o sorted

RECURSIVE SortByTimestampDescending(_)
SortByTimestampDescending(experiments) ==
    IF experiments = <<>> THEN <<>>
    ELSE InsertDescending(
            SortByTimestampDescending(SubSeq(experiments, 1, Len(experiments) - 1)),
            experiments[Len(experiments)])

\* experiments[:limit]
SliceTo(experiments, limit) ==
    IF limit >= 0
    THEN SubSeq(experiments, 1, Min(limit, Len(experiments)))
    ELSE SubSeq(experiments, 1, Max(Len(experiments) + limit, 0))

get_recent_experiments(file, limit) ==
    SliceTo(SortByTimestampDescending(load_all_experiments(file)), limit)

ResultsOf(experiment) == DictGet(experiment, Str("results"), Dict(<<>>))

\* what stands for a call that raised exc instead of returning
Raises(exc) == [t |-> "raises", s |-> exc, n |-> 0, items |-> <<>>]

\* results.get(key, 0) as a score: a number is kept doubled (the interactivity
\* score counts half a point per chart), any other value is kept as it is
DoubledValue(results, key) ==
    IF DictGet(results, Str(key), Num(0)).t = "num"
    THEN Num(2 * DictGet(results, Str(key), Num(0)).n)
    ELSE DictGet(results, Str(key), Num(0))

\* the score find_best_dashboard gives an experiment, doubled
DoubledScore(experiment, metric_name) ==
    LET results == ResultsOf(experiment) IN
    CASE results.t # "dict" -> Raises("AttributeError")
      [] metric_name = "interactivity" ->
            \* num_filters + num_charts * 0.5 raises unless both are numbers
            IF DoubledValue(results, "num_filters").t = "num"
               /\ DoubledValue(results, "num_charts").t = "num"
            THEN Num(DoubledValue(results, "num_filters").n
                     + DictGet(results, Str("num_charts"), Num(0)).n)
            ELSE Raises("TypeError")
      [] metric_name = "completeness" -> DoubledValue(results, "num_charts")
      [] OTHER -> DoubledValue(results, metric_name)

\* score > best_score: numbers compare by size; a value is not greater than
\* itself; a number and a value of another type do not compare (the strings of
\* the model are equal whenever two of them are compared)
ScoreGreater(score, best_score) ==
    CASE score.t = "num" /\ best_score.t = "num" -> Bool(score.n > best_score.n)
      [] score = best_score -> Bool(FALSE)
      [] OTHER -> Raises("TypeError")

\* the loop of find_best_dashboard from experiment i on: best is PyNone until
\* the first experiment is taken
RECURSIVE BestFrom(_, _, _, _)
BestFrom(experiments, i, metric_name, best) ==
    IF i > Len(experiments) THEN best
    ELSE IF DoubledScore(experiments[i], metric_name).t = "raises"
         THEN DoubledScore(experiments[i], metric_name)
    ELSE IF DoubledScore(experiments[i], metric_name) = PyNone
         THEN \* if score is None: continue
              BestFrom(experiments, i + 1, metric_name, best)
    ELSE IF best = PyNone
         THEN BestFrom(experiments, i + 1, metric_name, experiments[i])
    ELSE IF ScoreGreater(DoubledScore(experiments[i], metric_name),
                         DoubledScore(best, metric_name)).t = "raises"
         THEN Raises("TypeError")
    ELSE IF IsTruthy(ScoreGreater(DoubledScore(experiments[i], metric_name),
                                  DoubledScore(best, metric_name)))
         THEN BestFrom(experiments, i + 1, metric_name, experiments[i])
         ELSE BestFrom(experiments, i + 1, metric_name, best)

find_best_dashboard(file, metric_name) ==
    BestFrom(load_all_experiments(file), 1, metric_name, PyNone)

\* a tally that notes a key without counting its occurrences
CountOnce(counts, key) == DictSet(counts, key, Num(1))

\* counts[key] = counts.get(key, 0) + 1
CountUp(counts, key) == DictSet(counts, key, Num(DictGet(counts, key, Num(0)).n + 1))

RECURSIVE TallyCharts(_, _, _)
TallyCharts(charts, j, counts) ==
    IF j > Len(charts) THEN counts
    ELSE TallyCharts(charts, j + 1,
                     CountUp(counts, DictGet(charts[j], Str("type"), Str("unknown"))))

RECURSIVE ChartUsageFrom(_, _, _)
ChartUsageFrom(experiments, i, counts) ==
    IF i > Len(experiments) THEN counts
    ELSE ChartUsageFrom(experiments, i + 1,
            TallyCharts(DictGet(ResultsOf(experiments[i]), Str("charts"), List(<<>>)).items,
                        1, counts))

get_chart_usage_stats(file) == ChartUsageFrom(load_all_experiments(file), 1, Dict(<<>>))

\* the loop shared by get_layout_usage_stats and get_theme_usage_stats
RECURSIVE ValueUsageFrom(_, _, _, _)
ValueUsageFrom(experiments, i, key, counts) ==
    IF i > Len(experiments) THEN counts
    ELSE ValueUsageFrom(experiments, i + 1, key,
            CountUp(counts, DictGet(ResultsOf(experiments[i]), Str(key), Str("unknown"))))

get_layout_usage_stats(file) ==
    ValueUsageFrom(load_all_experiments(file), 1, "layout", Dict(<<>>))

get_theme_usage_stats(file) ==
    ValueUsageFrom(load_all_experiments(file), 1, "theme", Dict(<<>>))

\* sum(1 for exp in experiments if exp.get('success', False))
RECURSIVE SuccessfulFrom(_, _)
SuccessfulFrom(experiments, i) ==
    IF i > Len(experiments) THEN 0
    ELSE (IF IsTruthy(DictGet(experiments[i], Str("success"), Bool(FALSE))) THEN 1 ELSE 0)
         + SuccessfulFrom(experiments, i + 1)

\* f"{(successful/total*100):.1f}%": n holds the rate in tenths of a percent
SuccessRate(successful, total) ==
    [t |-> "str", s |-> "%.1f%%", n |-> (successful * 1000) \div total, items |-> <<>>]

get_experiment_summary(file) ==
    LET experiments == load_all_experiments(file)
        successful == SuccessfulFrom(experiments, 1)
    IN  IF experiments = <<>>
        THEN Dict(<<Pair(Str("total_experiments"), Num(0)),
                    Pair(Str("successful_experiments"), Num(0)),
                    Pair(Str("failed_experiments"), Num(0)),
                    Pair(Str("chart_usage"), Dict(<<>>)),
                    Pair(Str("layout_usage"), Dict(<<>>)),
                    Pair(Str("theme_usage"), Dict(<<>>))>>)
        ELSE Dict(<<Pair(Str("total_experiments"), Num(Len(experiments))),
                    Pair(Str("successful_experiments"), Num(successful)),
                    Pair(Str("failed_experiments"), Num(Len(experiments) - successful)),
                    Pair(Str("success_rate"), SuccessRate(successful, Len(experiments))),
                    Pair(Str("chart_usage"), get_chart_usage_stats(file)),
                    Pair(Str("layout_usage"), get_layout_usage_stats(file)),
                    Pair(Str("theme_usage"), get_theme_usage_stats(file))>>)

\* keyword in text, for the keywords and texts of the model: the empty keyword
\* is in every text, any other keyword only in a text equal to it
Contains(text, keyword) == keyword = "" \/ (text.t = "str" /\ text.s = keyword)

\* keyword in str(parameters): the rendering holds every key and string value
ContainsInRendering(parameters, keyword) ==
    \/ keyword = ""
    \/ /\ parameters.t = "dict"
       /\ \E i \in 1..Len(parameters.items) :
            \/ Contains(parameters.items[i].k, keyword)
            \/ Contains(parameters.items[i].v, keyword)

RECURSIVE SearchFrom(_, _, _)
SearchFrom(experiments, i, keyword) ==
    IF i > Len(experiments) THEN <<>>
    ELSE (IF \/ Contains(DictGet(experiments[i], Str("task"), Str("")), keyword)
             \/ ContainsInRendering(
                    DictGet(experiments[i], Str("parameters"), Dict(<<>>)), keyword)
          THEN <<experiments[i]>> ELSE <<>>)
         \o SearchFrom(experiments, i + 1, keyword)

search_experiments(file, keyword) == SearchFrom(load_all_experiments(file), 1, keyword)

\* an export that writes the experiments newest line first
ExportReversed(file) ==
    [parseable |-> TRUE,
     doc |-> List([i \in 1..Len(load_all_experiments(file)) |->
                    load_all_experiments(file)[Len(load_all_experiments(file)) + 1 - i]])]

\* the content of the file export_experiments_to_json writes:
\* json.dump(experiments, f, indent=2)
export_experiments_to_json(file) ==
    [parseable |-> TRUE, doc |-> JsonRoundTrip(List(load_all_experiments(file)))]

(***************************************************************************)
(* Namespaces: the dicts generated code runs in. A name that is not a key  *)
(* of the dict maps to Unbound.                                            *)
(***************************************************************************)
Names == {"df", "cux_df", "results", "dashboard", "d", "_dashboard_file",
          "charts", "widgets"}

Unbound == [t |-> "unbound", s |-> "", n |-> 0, items |-> <<>>]

EmptyNamespace == [name \in Names |-> Unbound]

\* an update in which the names already bound keep their values
OverlayKeepingBase(base, over) ==
    [name \in Names |-> IF base[name] # Unbound THEN base[name] ELSE over[name]]

\* {**base, **over}, base.update(over)
Overlay(base, over) ==
    [name \in Names |-> IF over[name] # Unbound THEN over[name] ELSE base[name]]

\* namespace.get(name)
NsGet(namespace, name) ==
    IF namespace[name] = Unbound THEN PyNone ELSE namespace[name]

BoundNames(namespace) == {name \in Names : namespace[name] # Unbound}

(***************************************************************************)
(* Generated code: a program is a sequence of statements that bind a name, *)
(* delete a name or print a line, and then returns or raises.              *)
(***************************************************************************)
Bind(name, val) == [op |-> "bind", name |-> name, val |-> val]
Del(name) == [op |-> "del", name |-> name, val |-> PyNone]
PrintLine == [op |-> "print", name |-> "", val |-> PyNone]

\* exec(code, globals(), local_vars) from statement i on. bound holds the
\* bindings the code made that are still in force; fault is the class of the
\* exception that ended the run ("none" when it ran to its end).
RECURSIVE RunFrom(_, _, _, _, _)
RunFrom(code, i, locals, bound, printed) ==
    IF i > Len(code.stmts)
    THEN [locals |-> locals, bound |-> bound, printed |-> printed,
          fault |-> IF code.ends = "returns" THEN "none" ELSE code.ends,
          error |-> IF code.ends = "returns" THEN PyNone ELSE Str("raised by the code")]
    ELSE LET stmt == code.stmts[i] IN
         CASE stmt.op = "bind" ->
                RunFrom(code, i + 1, [locals EXCEPT ![stmt.name] = stmt.val],
                        [bound EXCEPT ![stmt.name] = stmt.val], printed)
           [] stmt.op = "del" ->
                IF locals[stmt.name] = Unbound
                THEN [locals |-> locals, bound |-> bound, printed |-> printed,
                      fault |-> "Exception", error |-> Str("name is not defined")]
                ELSE RunFrom(code, i + 1, [locals EXCEPT ![stmt.name] = Unbound],
                             [bound EXCEPT ![stmt.name] = Unbound], printed)
           [] OTHER -> RunFrom(code, i + 1, locals, bound, printed + 1)

Exec(code, local_vars) == RunFrom(code, 1, local_vars, EmptyNamespace, 0)

(***************************************************************************)
(* VizCodeExecutor.execute_code.                                           *)
(***************************************************************************)
\* local_vars = {'df': self.df, 'cux_df': self.cux_df, **global_state}
LocalVars(self_df, self_cux_df, namespace) ==
    Overlay([EmptyNamespace EXCEPT !["df"] = self_df, !["cux_df"] = self_cux_df],
            namespace)

\* os.path.join("dashboards", f"dashboard_{timestamp}.html")
DashboardPath(now) ==
    [t |-> "str", s |-> "dashboards/dashboard_%Y%m%d_%H%M%S.html", n |-> now,
     items |-> <<>>]

\* dashboard.export exists: None and plain values have no export method
HasExport(dashboard) == dashboard.t = "object"

Traceback == Str("Traceback (most recent call last)")

\* the dict execute_code returns in its except branch
FailureResult(error, printed) ==
    [success |-> FALSE, error |-> error, traceback |-> Traceback,
     output |-> [stdout |-> printed, export |-> "none"],
     globals |-> EmptyNamespace]

\* the dict execute_code returns after a normal run
SuccessResult(local_vars, printed, export) ==
    [success |-> TRUE,
     output |-> [stdout |-> printed, export |-> export],
     dashboard |-> NsGet(local_vars, "dashboard"),
     dashboard_file |-> NsGet(local_vars, "_dashboard_file"),
     charts |-> NsGet(local_vars, "charts"),
     widgets |-> NsGet(local_vars, "widgets"),
     cux_df |-> NsGet(local_vars, "cux_df"),
     globals |-> local_vars]

\* what stands for the result of a call that raised
NoResult == [success |-> FALSE, error |-> PyNone, traceback |-> PyNone,
             output |-> [stdout |-> 0, export |-> "none"],
             globals |-> EmptyNamespace]

\* an executor that never takes a handle from the namespace of the code
RetainedNever(local_value, self_value) == self_value

\* if name in local_vars and local_vars[name] is not None: self.name = ...
Retained(local_value, self_value) ==
    IF local_value # Unbound /\ local_value # PyNone THEN local_value ELSE self_value

\* execute_code from the return of exec on (lines 217-277): run is what exec
\* did. raised tells whether the call raised instead of returning; df and
\* cux_df are self.df and self.cux_df afterwards. makedirs_ok and export_ok are
\* the outcomes of os.makedirs and of dashboard.export when they are called.
AfterExec(run, self_df, self_cux_df, now, makedirs_ok, export_ok) ==
    LET has_dashboard == run.locals["dashboard"] # Unbound
        exported == has_dashboard /\ HasExport(run.locals["dashboard"]) /\ export_ok
        local_vars == IF exported
                      THEN [run.locals EXCEPT !["_dashboard_file"] = DashboardPath(now)]
                      ELSE run.locals
        unchanged == [raised |-> FALSE, exc |-> "none", run |-> run,
                      result |-> NoResult, df |-> self_df, cux_df |-> self_cux_df]
    IN  CASE run.fault = "SystemExit" ->
                \* except Exception does not catch it: it leaves execute_code
                [unchanged EXCEPT !.raised = TRUE, !.exc = "SystemExit"]
          [] run.fault = "Exception" ->
                [unchanged EXCEPT !.result = FailureResult(run.error, run.printed)]
          [] run.fault = "none" /\ has_dashboard /\ ~makedirs_ok ->
                \* os.makedirs raises OSError outside the inner try
                [unchanged EXCEPT
                    !.result = FailureResult(Str("cannot create dashboards"), run.printed)]
          [] OTHER ->
                [raised |-> FALSE, exc |-> "none", run |-> run,
                 result |-> SuccessResult(local_vars, run.printed,
                              IF ~has_dashboard THEN "none"
                              ELSE IF exported THEN "exported" ELSE "failed"),
                 df |-> Retained(local_vars["df"], self_df),
                 cux_df |-> Retained(local_vars["cux_df"], self_cux_df)]

\* execute_code(code, global_state)
execute_code(code, namespace, self_df, self_cux_df, now, makedirs_ok, export_ok) ==
    AfterExec(Exec(code, LocalVars(self_df, self_cux_df, namespace)),
              self_df, self_cux_df, now, makedirs_ok, export_ok)

(***************************************************************************)
(* VizCodeGenerator.generate_code.                                         *)
(***************************************************************************)
\* the keys of task_prompts
TaskPrompts == {"load_data", "describe_data", "create_dashboard", "add_charts",
                "customize_dashboard", "show_dashboard", "export_dashboard"}

\* "# Error: Unknown task ...\nresults = {'error': 'Unknown task'}"
UnknownTaskStub ==
    [kind |-> "unknown_task_stub",
     stmts |-> <<Bind("results", Dict(<<Pair(Str("error"), Str("Unknown task"))>>))>>,
     ends |-> "returns"]

\* the replacement fields str.format meets first in each template; the field
\* of describe_data is a piece of example code in braces, which no keyword
\* parameter can name
Placeholders(task_name) ==
    CASE task_name = "load_data" -> {"path"}
      [] task_name = "describe_data" -> {"\n    'column_stats'"}
      [] task_name = "create_dashboard" ->
            {"config", "num_charts", "num_widgets", "layout", "theme"}
      [] task_name = "add_charts" -> {"chart_configs"}
      [] task_name = "customize_dashboard" -> {"updates"}
      [] task_name = "export_dashboard" -> {"filepath"}
      [] OTHER -> {}

\* prompt_template.format(**kwargs), or the template as it is when format
\* raises KeyError
task_prompt(task_name, kwargs) ==
    IF \A field \in Placeholders(task_name) : DictHas(kwargs, Str(field))
    THEN [kind |-> "formatted", task |-> task_name, kwargs |-> kwargs]
    ELSE [kind |-> "template", task |-> task_name, kwargs |-> Dict(<<>>)]

\* f"# Error generating code: {str(e)}\nresults = {'error': 'Code generation
\* failed'}", message being the lines of str(e): the first line of the text is
\* the comment, and the lines of a longer message stand between it and the
\* assignment, where they are no Python and the text does not compile
GenerationFailedStub(message) ==
    [kind |-> "generation_failed_stub",
     comment |-> <<message[1]>>,
     stmts |-> IF Len(message) = 1
               THEN <<Bind("results",
                           Dict(<<Pair(Str("error"), Str("Code generation failed"))>>))>>
               ELSE <<>>,
     ends |-> IF Len(message) = 1 THEN "returns" ELSE "Exception"]

\* get_state_description(global_state), as the lines it writes about cux_df
\* and d: a key bound to a value without .data (None, for one) raises inside
\* the try and gets the "exists" line of the bare except
get_state_description(namespace) ==
    [cux_df |-> IF namespace["cux_df"] = Unbound THEN "Not loaded"
                ELSE IF namespace["cux_df"] = Obj("cux_df") THEN "DataFrame with shape"
                ELSE "DataFrame exists",
     d |-> IF namespace["d"] = Unbound THEN "Dashboard not created"
           ELSE "dashboard exists"]

\* generate_code(task_name, state_info, **kwargs) when the model client answers
\* with reply: it raised, it returned no choices, or it returned a program
generate_code(task_name, reply) ==
    IF task_name \notin TaskPrompts THEN UnknownTaskStub
    ELSE IF reply.kind # "code" THEN GenerationFailedStub(reply.message)
    ELSE [kind |-> "model_code", stmts |-> reply.stmts, ends |-> reply.ends]

(***************************************************************************)
(* VizTools.                                                               *)
(***************************************************************************)
\* the text _format_response builds, as the parts it puts into it
\* (a part left out of the text is PyNone)
format_response(tool_name, result) ==
    IF ~result.success
    THEN [kind |-> "tool_response", header |-> "failed", tool |-> tool_name,
          error |-> result.error, traceback |-> result.traceback,
          dashboard_file |-> PyNone, dashboard |-> PyNone, stdout |-> 0,
          export |-> "none", code |-> PyNone]
    ELSE [kind |-> "tool_response", header |-> "completed successfully",
          tool |-> tool_name, error |-> PyNone, traceback |-> PyNone,
          dashboard_file |-> IF IsTruthy(result.dashboard_file)
                             THEN result.dashboard_file ELSE PyNone,
          dashboard |-> IF IsTruthy(result.dashboard) THEN result.dashboard ELSE PyNone,
          stdout |-> result.output.stdout, export |-> result.output.export,
          code |-> PyNone]

NoResponse == [kind |-> "none"]

\* result.get(key, default)
ResultGet(result, key, default) ==
    IF key \in DOMAIN result THEN result[key] ELSE default

\* the source text of a program as the log keeps it: programs are told apart
\* by where they came from
CodeText(code) == Str(code.kind)

\* experiment_data of execute_tool
ExperimentData(tool_name, kwargs, code, result) ==
    Dict(<<Pair(Str("task"), Str(tool_name)),
           Pair(Str("parameters"), kwargs),
           Pair(Str("code"), CodeText(code)),
           Pair(Str("success"), Bool(result.success)),
           Pair(Str("results"), ResultGet(result, "results", Dict(<<>>))),
           Pair(Str("error"), ResultGet(result, "error", PyNone))>>)

\* a merge that starts the namespace afresh after a failed execution
MergeGlobalsOrReset(namespace, result) ==
    IF result.success THEN Overlay(namespace, result.globals) ELSE EmptyNamespace

\* if result['success']: self.global_state.update(result['globals'])
MergeGlobals(namespace, result) ==
    IF result.success THEN Overlay(namespace, result.globals) ELSE namespace

\* execute_tool from the return of execute_code on (lines 154-170): ex is what
\* execute_code did with code. write_ok is whether the log could be opened and
\* written.
AfterExecuteCode(self, tool_name, kwargs, code, ex, now, write_ok) ==
    LET experiment_data == ExperimentData(tool_name, kwargs, code, ex.result)
        base == [raised |-> TRUE, exc |-> ex.exc, exec_raised |-> ex.raised,
                 code |-> code, run |-> ex.run,
                 result |-> ex.result, response |-> NoResponse,
                 global_state |-> self.global_state, df |-> self.df,
                 cux_df |-> self.cux_df, runs_file |-> self.runs_file,
                 experiment_data |-> experiment_data]
        executed == [base EXCEPT !.global_state = MergeGlobals(self.global_state, ex.result),
                                 !.df = ex.df, !.cux_df = ex.cux_df]
    IN  IF ex.raised THEN base
        ELSE IF ~write_ok THEN [executed EXCEPT !.exc = "OSError"]
        ELSE IF SaveRaises(experiment_data, now) THEN [executed EXCEPT !.exc = "TypeError"]
        ELSE [executed EXCEPT
                !.raised = FALSE,
                !.runs_file = save_experiment(self.runs_file, experiment_data, now),
                !.response = format_response(tool_name, ex.result)]

\* execute_tool from the return of generate_code on (lines 151-170)
ExecuteGenerated(self, tool_name, kwargs, code, now, makedirs_ok, export_ok, write_ok) ==
    AfterExecuteCode(self, tool_name, kwargs, code,
                     execute_code(code, self.global_state, self.df, self.cux_df,
                                  now, makedirs_ok, export_ok),
                     now, write_ok)

\* execute_tool(tool_name, **kwargs) in the state self = [global_state, df,
\* cux_df, runs_file]: the state afterwards, whether the call raised, and what it
\* returned
execute_tool(self, tool_name, kwargs, reply, now, makedirs_ok, export_ok, write_ok) ==
    ExecuteGenerated(self, tool_name, kwargs, generate_code(tool_name, reply),
                     now, makedirs_ok, export_ok, write_ok)

(***************************************************************************)
(* VizChatAgent.                                                           *)
(***************************************************************************)
\* the names _call_tool routes to VizTools.execute_tool
OrchestratorTools == {"load_data", "describe_data", "create_dashboard", "add_charts",
                      "customize_dashboard", "show_dashboard", "export_dashboard"}

\* path.split('.')[0] for the file names of the model
BaseName(path) ==
    CASE path = Str("sales.csv") -> Str("sales")
      [] path = Str("sales.v2.csv") -> Str("sales")
      [] path = Str("sales.v2.json") -> Str("sales")
      [] path = Str("budget.csv") -> Str("budget")
      [] OTHER -> path

\* the arguments after the uploaded-file resolution at the head of _call_tool;
\* path_exists is os.path.exists(path)
ResolvePath(tool_name, arguments, files, path_exists) ==
    IF tool_name = "load_data" /\ DictHas(arguments, Str("path"))
       /\ ~path_exists /\ IsTruthy(files)
    THEN LET path == DictGet(arguments, Str("path"), PyNone) IN
         IF DictHas(files, path)
         THEN DictSet(arguments, Str("path"), DictGet(files, path, PyNone))
         ELSE IF DictHas(files, BaseName(path))
              THEN DictSet(arguments, Str("path"), DictGet(files, BaseName(path), PyNone))
              ELSE arguments
    ELSE arguments

\* '✓' in result: the success header of _format_response carries the mark, its
\* failure header the cross
HasCheckMark(response) ==
    response.kind = "tool_response" /\ response.header = "completed successfully"

\* a routing that hands every tool name to VizTools.execute_tool
RouteAllToOrchestrator(self, tool_name, resolved, run) ==
    [raised |-> run.raised, exc |-> run.exc, invocations |-> 1,
     response |-> run.response, result |-> run.result,
     global_state |-> run.global_state, df |-> run.df,
     cux_df |-> run.cux_df, runs_file |-> run.runs_file,
     data_loaded |-> self.data_loaded]

\* _call_tool from the routing on (lines 208-227): resolved are the arguments
\* after the path resolution, run what execute_tool does with them
Route(self, tool_name, resolved, run) ==
    LET local == [raised |-> FALSE, exc |-> "none", invocations |-> 0,
                  response |-> NoResponse, result |-> NoResult,
                  global_state |-> self.global_state, df |-> self.df,
                  cux_df |-> self.cux_df, runs_file |-> self.runs_file,
                  data_loaded |-> self.data_loaded]
    IN  CASE tool_name \in OrchestratorTools ->
                [raised |-> run.raised, exc |-> run.exc, invocations |-> 1,
                 response |-> run.response, result |-> run.result,
                 global_state |-> run.global_state, df |-> run.df,
                 cux_df |-> run.cux_df, runs_file |-> run.runs_file,
                 data_loaded |-> IF ~run.raised /\ tool_name = "load_data"
                                    /\ HasCheckMark(run.response)
                                 THEN TRUE ELSE self.data_loaded]
          [] tool_name = "show_history" ->
                [local EXCEPT !.response =
                    [kind |-> "history",
                     experiments |-> get_recent_experiments(
                         self.runs_file, DictGet(resolved, Str("limit"), Num(5)).n)]]
          [] tool_name = "help" ->
                [local EXCEPT !.response =
                    [kind |-> "help", data_loaded |-> self.data_loaded,
                     files |-> self.uploaded_files]]
          [] OTHER ->
                [local EXCEPT !.response = [kind |-> "unknown_tool", tool |-> tool_name]]

\* _call_tool from the path resolution on, with the resolved arguments
CallResolved(self, tool_name, resolved, reply, now, env) ==
    Route(self, tool_name, resolved,
          execute_tool(self, tool_name, resolved, reply, now,
                       env.makedirs_ok, env.export_ok, env.write_ok))

\* _call_tool(tool_name, arguments) in the state self = [global_state, df, cux_df,
\* runs_file, data_loaded, uploaded_files]
call_tool(self, tool_name, arguments, reply, now, env) ==
    CallResolved(self, tool_name,
                 ResolvePath(tool_name, arguments, self.uploaded_files, env.path_exists),
                 reply, now, env)

SystemMessage == [role |-> "system", content |-> [kind |-> "system_message"]]
UserMessage(text) == [role |-> "user", content |-> [kind |-> "user_text", text |-> text]]
AssistantMessage(content) == [role |-> "assistant", content |-> content]

\* json.loads(tool_call["function"]["arguments"]), {} on a JSONDecodeError
ParseArguments(raw) == IF raw.parses THEN raw.value ELSE Dict(<<>>)

\* self.conversation after the system and user messages are appended
Opened(messages, user_message) ==
    (IF messages = <<>> THEN <<SystemMessage>> ELSE messages)
    \o <<UserMessage(user_message)>>

\* chat inside its try (lines 245-297): opened is the conversation with the user
\* message, called what _call_tool does with the first tool call
Answer(self, opened, model_reply, called) ==
    LET kept == [raised |-> FALSE, exc |-> "none", invocations |-> 0,
                 returned |-> NoResponse, result |-> NoResult,
                 global_state |-> self.global_state, df |-> self.df,
                 cux_df |-> self.cux_df, runs_file |-> self.runs_file,
                 data_loaded |-> self.data_loaded, conversation |-> opened]
        answered(state, content) ==
            [state EXCEPT !.returned = content,
                          !.conversation = Append(opened, AssistantMessage(content))]
        after_tool == [kept EXCEPT !.invocations = called.invocations,
                                   !.result = called.result,
                                   !.global_state = called.global_state,
                                   !.df = called.df, !.cux_df = called.cux_df,
                                   !.runs_file = called.runs_file,
                                   !.data_loaded = called.data_loaded]
    IN  CASE model_reply.kind # "message" ->
                \* the client raised, or response["choices"][0] did
                answered(kept, [kind |-> "error_message", exc |-> model_reply.kind])
          [] model_reply.kind = "message" /\ model_reply.tool_calls # <<>> ->
                IF called.raised /\ called.exc = "SystemExit"
                THEN \* not an Exception: it leaves chat
                     [after_tool EXCEPT !.raised = TRUE, !.exc = "SystemExit"]
                ELSE IF called.raised
                THEN answered(after_tool, [kind |-> "error_message", exc |-> called.exc])
                ELSE answered(after_tool, called.response)
          [] OTHER ->
                \* message.get("content", fallback): the fallback only stands in
                \* for a missing key, a null content is returned as it is
                answered(kept,
                         CASE model_reply.content = "text" -> [kind |-> "model_text"]
                           [] model_reply.content = "absent" -> [kind |-> "fallback_text"]
                           [] OTHER -> [kind |-> "null_content"])

\* message["tool_calls"][0]; no call is made when the list is empty
FirstToolCall(model_reply) ==
    IF model_reply.tool_calls = <<>>
    THEN [name |-> "", arguments |-> [parses |-> FALSE, value |-> PyNone]]
    ELSE model_reply.tool_calls[1]

\* chat(user_message) in the state self (the state of call_tool and the
\* conversation): model_reply is what llm_client.chat did (it raised, it
\* returned no choices, or it returned a message), reply what the generator's
\* model call did
chat(self, user_message, model_reply, reply, now, env) ==
    Answer(self, Opened(self.conversation, user_message), model_reply,
           call_tool(self, FirstToolCall(model_reply).name,
                     ParseArguments(FirstToolCall(model_reply).arguments),
                     reply, now, env))

reset_conversation(messages) == <<>>

(***************************************************************************)
(* The state after construction: VizChatAgent.__init__ clears the log and  *)
(* builds a VizTools with an empty namespace and an executor without       *)
(* handles.                                                                *)
(***************************************************************************)
NoFile == [parseable |-> FALSE, doc |-> PyNone]

Init ==
    /\ runs_file = <<>>
    /\ export_file = NoFile
    /\ clock = 0
    /\ global_state = EmptyNamespace
    /\ exec_df = PyNone
    /\ exec_cux_df = PyNone
    /\ conversation = <<>>
    /\ data_loaded = FALSE
    /\ uploaded_files = Dict(<<>>)
    /\ calls = 0
    /\ turns = 0
    /\ last = [op |-> "init"]

\* time passes
Tick ==
    /\ clock < MaxClock
    /\ clock' = clock + 1
    /\ last' = [op |-> "tick"]
    /\ UNCHANGED <<runs_file, export_file, global_state, exec_df, exec_cux_df,
                   conversation, data_loaded, uploaded_files, calls, turns>>

(***************************************************************************)
(* The store on its own: the calls a client of VizExperimentStore makes.   *)
(***************************************************************************)
Experiment(task, parameters, success, results, error) ==
    Dict(<<Pair(Str("task"), Str(task)),
           Pair(Str("parameters"), parameters),
           Pair(Str("code"), Str("model_code")),
           Pair(Str("success"), Bool(success)),
           Pair(Str("results"), results),
           Pair(Str("error"), error)>>)

\* a dashboard with two charts and one filter
DashboardExperiment ==
    Experiment("create_dashboard", Dict(<<Pair(Str("config"), Str("bar chart"))>>), TRUE,
               Dict(<<Pair(Str("num_charts"), Num(2)),
                      Pair(Str("num_filters"), Num(1)),
                      Pair(Str("charts"),
                           List(<<Dict(<<Pair(Str("type"), Str("bar"))>>), Dict(<<>>)>>)),
                      Pair(Str("layout"), Str("two_by_two"))>>),
               PyNone)

\* a failed run whose results hold values json cannot serialize
FailedExperiment ==
    Experiment("load_data", Dict(<<Pair(Str("path"), Str("sales.csv"))>>), FALSE,
               Dict(<<Pair(Str("dtypes"), NdArray("int64")),
                      Pair(Str("loaded_at"), DateTime("now")),
                      Pair(Str("shape"), Tuple(<<Num(10), Num(2)>>)),
                      Pair(Str("handles"), List(<<Obj("cux_df")>>))>>),
               Str("file not found"))

\* results keyed by a tuple
TupleKeyExperiment ==
    Experiment("add_charts", Dict(<<>>), TRUE,
               Dict(<<Pair(Tuple(<<Num(0), Num(1)>>), Str("bar"))>>), PyNone)

StoreExperiments == {DashboardExperiment, FailedExperiment, TupleKeyExperiment}

Metrics == {"interactivity", "completeness", "num_filters", "layout"}
Limits == {-1, 1, MaxLog}
Keywords == {"", "load_data"}

StoreFrame == <<clock, global_state, exec_df, exec_cux_df, conversation,
                data_loaded, uploaded_files, calls, turns>>

SaveExperiment ==
    /\ Len(runs_file) < MaxLog
    /\ \E experiment_data \in StoreExperiments :
        /\ runs_file' = save_experiment(runs_file, experiment_data, clock)
        /\ last' = [op |-> "save_experiment", arg |-> experiment_data,
                    raised |-> SaveRaises(experiment_data, clock)]
    /\ UNCHANGED <<export_file, StoreFrame>>

LoadAllExperiments ==
    /\ last' = [op |-> "load_all_experiments", ret |-> load_all_experiments(runs_file)]
    /\ UNCHANGED <<runs_file, export_file, StoreFrame>>

ClearAll ==
    /\ runs_file' = clear_all(runs_file)
    /\ last' = [op |-> "clear_all"]
    /\ UNCHANGED <<export_file, StoreFrame>>

\* VizChatAgent(): the store is opened on the log as it is and cleared, then
\* the tools, the conversation and the file registry are created empty
NewVizChatAgent ==
    /\ runs_file' = clear_all(runs_file)
    /\ global_state' = EmptyNamespace
    /\ exec_df' = PyNone
    /\ exec_cux_df' = PyNone
    /\ conversation' = <<>>
    /\ uploaded_files' = Dict(<<>>)
    /\ data_loaded' = FALSE
    /\ last' = [op |-> "VizChatAgent", log |-> runs_file]
    /\ UNCHANGED <<export_file, clock, calls, turns>>

GetRecentExperiments ==
    /\ \E limit \in Limits :
        last' = [op |-> "get_recent_experiments", arg |-> limit,
                 ret |-> get_recent_experiments(runs_file, limit)]
    /\ UNCHANGED <<runs_file, export_file, StoreFrame>>

CountExperiments ==
    /\ last' = [op |-> "count_experiments", ret |-> count_experiments(runs_file)]
    /\ UNCHANGED <<runs_file, export_file, StoreFrame>>

FindBestDashboard ==
    /\ \E metric_name \in Metrics :
        last' = [op |-> "find_best_dashboard", arg |-> metric_name,
                 ret |-> find_best_dashboard(runs_file, metric_name)]
    /\ UNCHANGED <<runs_file, export_file, StoreFrame>>

GetChartUsageStats ==
    /\ last' = [op |-> "get_chart_usage_stats", ret |-> get_chart_usage_stats(runs_file)]
    /\ UNCHANGED <<runs_file, export_file, StoreFrame>>

GetLayoutUsageStats ==
    /\ last' = [op |-> "get_layout_usage_stats", ret |-> get_layout_usage_stats(runs_file)]
    /\ UNCHANGED <<runs_file, export_file, StoreFrame>>

GetThemeUsageStats ==
    /\ last' = [op |-> "get_theme_usage_stats", ret |-> get_theme_usage_stats(runs_file)]
    /\ UNCHANGED <<runs_file, export_file, StoreFrame>>

GetExperimentSummary ==
    /\ last' = [op |-> "get_experiment_summary", ret |-> get_experiment_summary(runs_file)]
    /\ UNCHANGED <<runs_file, export_file, StoreFrame>>

SearchExperiments ==
    /\ \E keyword \in Keywords :
        last' = [op |-> "search_experiments", arg |-> keyword,
                 ret |-> search_experiments(runs_file, keyword)]
    /\ UNCHANGED <<runs_file, export_file, StoreFrame>>

ExportExperimentsToJson ==
    /\ export_file' = export_experiments_to_json(runs_file)
    /\ last' = [op |-> "export_experiments_to_json"]
    /\ UNCHANGED <<runs_file, StoreFrame>>

\* the log file is damaged from outside: one line that is no JSON document
\* appears somewhere in it
DamageLog ==
    /\ \A i \in 1..Len(runs_file) : runs_file[i].parseable
    /\ \E at \in 0..Len(runs_file), line \in {CorruptLine, BlankLine} :
        /\ runs_file' = SubSeq(runs_file, 1, at) \o <<line>>
                          \o SubSeq(runs_file, at + 1, Len(runs_file))
        /\ last' = [op |-> "damage_log", at |-> at, line |-> line]
    /\ UNCHANGED <<export_file, StoreFrame>>

StoreNext ==
    \/ SaveExperiment
    \/ DamageLog
    \/ LoadAllExperiments
    \/ ClearAll
    \/ NewVizChatAgent
    \/ GetRecentExperiments
    \/ CountExperiments
    \/ FindBestDashboard
    \/ GetChartUsageStats
    \/ GetLayoutUsageStats
    \/ GetThemeUsageStats
    \/ GetExperimentSummary
    \/ SearchExperiments
    \/ ExportExperimentsToJson
    \/ Tick

StoreSpec == Init /\ [][StoreNext]_vars

(***************************************************************************)
(* export_experiments_to_json step by step, as the file system sees it:    *)
(* open('w') truncates the target, json.dump writes the text piece by      *)
(* piece, and leaving the with block flushes the rest and closes the file. *)
(* The program does nothing else between these steps; a process that stops *)
(* leaves the file as the last step made it.                               *)
(***************************************************************************)
\* the target right after open('w'): it exists and is empty
TruncatedFile == [parseable |-> FALSE, doc |-> Str("")]

\* the target when the text of the first k records has reached it and the
\* rest has not
PartialFile(experiments, k) ==
    [parseable |-> FALSE, doc |-> List(SubSeq(experiments, 1, k))]

Exporting == last.op \in {"export_open", "export_write"}

\* experiments = self.load_all_experiments(); ...; output_path.open('w')
ExportOpen ==
    /\ ~Exporting
    /\ export_file' = TruncatedFile
    /\ last' = [op |-> "export_open", experiments |-> load_all_experiments(runs_file),
                written |-> 0, previous |-> export_file]
    /\ UNCHANGED <<runs_file, StoreFrame>>

\* json.dump: a piece of the text reaches the file
ExportWrite ==
    /\ Exporting
    /\ \E k \in (last.written + 1)..Len(last.experiments) :
        /\ export_file' = PartialFile(last.experiments, k)
        /\ last' = [last EXCEPT !.op = "export_write", !.written = k]
    /\ UNCHANGED <<runs_file, StoreFrame>>

\* the end of the with block: the whole text is in the file
ExportClose ==
    /\ Exporting
    /\ export_file' = export_experiments_to_json(runs_file)
    /\ last' = [op |-> "export_closed", previous |-> last.previous]
    /\ UNCHANGED <<runs_file, StoreFrame>>

SaveBeforeExport == ~Exporting /\ SaveExperiment

TickBeforeExport == ~Exporting /\ Tick

ExportNext ==
    \/ SaveBeforeExport
    \/ TickBeforeExport
    \/ ExportOpen
    \/ ExportWrite
    \/ ExportClose

ExportSpec == Init /\ [][ExportNext]_vars

(***************************************************************************)
(* The orchestrator on its own: direct calls of VizTools.execute_tool with *)
(* every program of up to MaxStmts statements as the generated code.       *)
(***************************************************************************)
Self ==
    [global_state |-> global_state, df |-> exec_df, cux_df |-> exec_cux_df,
     runs_file |-> runs_file, data_loaded |-> data_loaded,
     uploaded_files |-> uploaded_files, conversation |-> conversation]

\* the values generated code binds to a name
BindableValues(name) ==
    CASE name = "results" -> {Dict(<<Pair(Str("num_charts"), Num(2))>>)}
      [] name = "dashboard" -> {Obj("dashboard"), PyNone}
      [] OTHER -> {Obj("cux_df"), PyNone}

CodeNames == {"cux_df", "results", "dashboard"}

Statements ==
    UNION {{Bind(name, val) : val \in BindableValues(name)} : name \in CodeNames}
    \cup {Del(name) : name \in CodeNames}
    \cup {PrintLine}
    \* d = cux_df.dashboard(...), as the create_dashboard template asks
    \cup {Bind("d", Obj("dashboard"))}

Endings == {"returns", "Exception", "SystemExit"}

\* the model call raised, or its reply had no choices (KeyError('choices'));
\* message holds the lines of str(e)
ModelFault(kind) ==
    [kind |-> kind, stmts |-> <<>>, ends |-> "returns",
     message |-> IF kind = "no_choices" THEN <<"'choices'">>
                 ELSE <<"Connection error.">>]
\* the model call raised an error whose description has two lines
TwoLineFault ==
    [kind |-> "raises", stmts |-> <<>>, ends |-> "returns",
     message |-> <<"Client error '401 Unauthorized' for url",
                   "For more information check: https://developer.mozilla.org">>]
Program(stmts, ends) == [kind |-> "code", stmts |-> stmts, ends |-> ends]

\* what the generator's model call can do: raise, return no choices, or return
\* a program
CodeReplies ==
    {ModelFault("raises"), ModelFault("no_choices"), TwoLineFault}
    \cup {Program(stmts, ends) :
            stmts \in UNION {[1..m -> Statements] : m \in 0..MaxStmts},
            ends \in Endings}

\* the reply is not asked for when the task has no template
RepliesFor(tool_name) ==
    IF tool_name \in TaskPrompts THEN CodeReplies ELSE {ModelFault("raises")}

\* a task with a template and one without
ToolNames == {"create_dashboard", "make_report"}

KwargsFor(tool_name) ==
    IF tool_name = "create_dashboard"
    THEN {Dict(<<Pair(Str("config"), Str("bar chart"))>>)}
    ELSE {Dict(<<>>)}

\* the outcomes of os.makedirs, dashboard.export and the log write: all
\* succeed, or one of them fails
Environments ==
    {[makedirs_ok |-> TRUE, export_ok |-> TRUE, write_ok |-> TRUE, path_exists |-> FALSE],
     [makedirs_ok |-> FALSE, export_ok |-> TRUE, write_ok |-> TRUE, path_exists |-> FALSE],
     [makedirs_ok |-> TRUE, export_ok |-> FALSE, write_ok |-> TRUE, path_exists |-> FALSE],
     [makedirs_ok |-> TRUE, export_ok |-> TRUE, write_ok |-> FALSE, path_exists |-> FALSE]}

\* one execute_tool call and what it leaves behind
ExecuteToolWith(tool_name, kwargs, reply, env) ==
       \E call \in {execute_tool(Self, tool_name, kwargs, reply, clock,
                                  env.makedirs_ok, env.export_ok, env.write_ok)} :
            /\ global_state' = call.global_state
            /\ exec_df' = call.df
            /\ exec_cux_df' = call.cux_df
            /\ runs_file' = call.runs_file
            /\ last' = [op |-> "execute_tool", tool_name |-> tool_name,
                        kwargs |-> kwargs, code |-> call.code.kind,
                        prompt |-> task_prompt(tool_name, kwargs).kind,
                        message |-> IF tool_name \in TaskPrompts /\ reply.kind # "code"
                                    THEN reply.message ELSE <<>>,
                        comment |-> IF call.code.kind = "generation_failed_stub"
                                    THEN call.code.comment ELSE <<>>,
                        fault |-> call.run.fault, bound |-> call.run.bound,
                        printed |-> call.run.printed,
                        exec_raised |-> call.exec_raised,
                        raised |-> call.raised, exc |-> call.exc,
                        write_ok |-> env.write_ok,
                        result |-> call.result, response |-> call.response]

ExecuteTool ==
    /\ calls < MaxCalls
    /\ calls' = calls + 1
    /\ \E tool_name \in ToolNames :
       \E kwargs \in KwargsFor(tool_name), reply \in RepliesFor(tool_name),
          env \in Environments :
            ExecuteToolWith(tool_name, kwargs, reply, env)
    /\ UNCHANGED <<export_file, clock, conversation, data_loaded, uploaded_files,
                   turns>>

ToolsNext ==
    \/ ExecuteTool
    \/ Tick

ToolsSpec == Init /\ [][ToolsNext]_vars

(***************************************************************************)
(* The data handles: load_data calls whose code binds, rebinds and deletes *)
(* df and cux_df, with two handles of each kind.                           *)
(***************************************************************************)
\* the programs of up to MaxStmts statements over df and cux_df
HandleReplies ==
    {Program(stmts, ends) :
        stmts \in UNION {[1..m -> {Bind("df", Obj("df")), Bind("df", Obj("df2")),
                                   Bind("cux_df", Obj("cux_df")),
                                   Bind("cux_df", Obj("cux_df2")),
                                   Bind("cux_df", PyNone), Del("cux_df")}] :
                          m \in 0..MaxStmts},
        ends \in Endings}

ExecuteHandleCode ==
    /\ calls < MaxCalls
    /\ calls' = calls + 1
    /\ \E reply \in HandleReplies,
          env \in {e \in Environments : e.makedirs_ok /\ e.export_ok} :
            ExecuteToolWith("load_data", Dict(<<Pair(Str("path"), Str("sales.csv"))>>),
                            reply, env)
    /\ UNCHANGED <<export_file, clock, conversation, data_loaded, uploaded_files,
                   turns>>

HandlesNext ==
    \/ ExecuteHandleCode
    \/ Tick

HandlesSpec == Init /\ [][HandlesNext]_vars

(***************************************************************************)
(* The chat agent: chat turns, the UI registering an uploaded file, and    *)
(* conversation resets.                                                    *)
(***************************************************************************)
ToolCall(name, raw) == [name |-> name, arguments |-> raw]
\* the arguments text of a tool call: JSON for a mapping, or malformed
JsonArguments(value) == [parses |-> TRUE, value |-> value]
MalformedArguments == [parses |-> FALSE, value |-> PyNone]

ModelMessage(content, tool_calls) ==
    [kind |-> "message", content |-> content, tool_calls |-> tool_calls]

\* what llm_client.chat can do without asking for a tool
PlainReplies ==
    {[kind |-> "raises", content |-> "absent", tool_calls |-> <<>>],
     [kind |-> "no_choices", content |-> "absent", tool_calls |-> <<>>],
     ModelMessage("text", <<>>),
     ModelMessage("absent", <<>>),
     ModelMessage("null", <<>>)}

\* replies whose first tool call is answered by the agent itself
LocalToolReplies ==
    {ModelMessage("null", <<ToolCall("show_history",
                                     JsonArguments(Dict(<<Pair(Str("limit"), Num(1))>>)))>>),
     ModelMessage("null", <<ToolCall("help", MalformedArguments)>>),
     ModelMessage("null", <<ToolCall("make_report", JsonArguments(Dict(<<>>)))>>)}

\* replies whose first tool call goes to VizTools.execute_tool
OrchestratorReplies ==
    {ModelMessage("null", <<ToolCall("load_data",
                                     JsonArguments(Dict(<<Pair(Str("path"),
                                                               Str("sales.csv"))>>)))>>),
     ModelMessage("text", <<ToolCall("create_dashboard", MalformedArguments)>>),
     ModelMessage("null", <<ToolCall("create_dashboard", JsonArguments(Dict(<<>>))),
                            ToolCall("load_data", JsonArguments(Dict(<<>>)))>>)}

\* the generated programs of the chat specification
ChatCodeReplies ==
    {ModelFault("raises")}
    \cup {Program(stmts, ends) :
            stmts \in {<<>>, <<Bind("cux_df", Obj("cux_df"))>>,
                       <<Bind("dashboard", Obj("dashboard"))>>},
            ends \in Endings}

AllSucceed == [makedirs_ok |-> TRUE, export_ok |-> TRUE, write_ok |-> TRUE,
               path_exists |-> FALSE]

ChatInputs ==
    {[model_reply |-> m, reply |-> ModelFault("raises"), env |-> AllSucceed] :
        m \in PlainReplies \cup LocalToolReplies}
    \cup {[model_reply |-> m, reply |-> r, env |-> e] :
            m \in OrchestratorReplies, r \in ChatCodeReplies, e \in Environments}

Chat ==
    /\ turns < MaxTurns
    /\ calls < MaxCalls
    /\ turns' = turns + 1
    /\ \E input \in ChatInputs :
       \E ret \in {chat(Self, "hello", input.model_reply, input.reply, clock,
                         input.env)} :
            /\ conversation' = ret.conversation
            /\ global_state' = ret.global_state
            /\ exec_df' = ret.df
            /\ exec_cux_df' = ret.cux_df
            /\ runs_file' = ret.runs_file
            /\ data_loaded' = ret.data_loaded
            /\ calls' = calls + ret.invocations
            /\ last' = [op |-> "chat", model |-> input.model_reply.kind,
                        tool |-> FirstToolCall(input.model_reply).name,
                        requested |-> Len(input.model_reply.tool_calls),
                        env |-> input.env,
                        raised |-> ret.raised, exc |-> ret.exc,
                        invocations |-> ret.invocations,
                        returned |-> ret.returned, result |-> ret.result]
    /\ UNCHANGED <<export_file, clock, uploaded_files>>

ResetConversation ==
    /\ conversation' = reset_conversation(conversation)
    /\ last' = [op |-> "reset_conversation"]
    /\ UNCHANGED <<runs_file, export_file, clock, global_state, exec_df, exec_cux_df,
                   data_loaded, uploaded_files, calls, turns>>

\* the UI registers an uploaded file under its name and under its base name
RegisterFile ==
    /\ ~IsTruthy(uploaded_files)
    /\ uploaded_files' =
            DictSet(DictSet(uploaded_files, Str("sales.csv"), Str("/tmp/sales.csv")),
                    BaseName(Str("sales.csv")), Str("/tmp/sales.csv"))
    /\ last' = [op |-> "register_file"]
    /\ UNCHANGED <<runs_file, export_file, clock, global_state, exec_df, exec_cux_df,
                   conversation, data_loaded, calls, turns>>

ChatNext ==
    \/ Chat
    \/ ResetConversation
    \/ RegisterFile
    \/ Tick

ChatSpec == Init /\ [][ChatNext]_vars

(***************************************************************************)
(* The resolution of uploaded files: the UI registers uploads, and         *)
(* load_data calls reach _call_tool with the file names a model may ask    *)
(* for.                                                                    *)
(***************************************************************************)
\* the names of the files a user uploads
FileNames == {"sales.csv", "sales.v2.csv"}

\* the path arguments of the load_data calls
Paths == {"sales.csv", "sales.v2.csv", "sales.v2.json", "budget.csv"}

\* where the UI keeps the upload of that name
UploadPath(name) ==
    IF name = "sales.csv" THEN Str("/tmp/sales.csv") ELSE Str("/tmp/sales.v2.csv")

\* the UI registers an upload under its name and under name.split('.')[0]
UploadFile ==
    /\ \E name \in FileNames :
        /\ ~DictHas(uploaded_files, Str(name))
        /\ uploaded_files' =
                DictSet(DictSet(uploaded_files, Str(name), UploadPath(name)),
                        BaseName(Str(name)), UploadPath(name))
        /\ last' = [op |-> "upload_file", name |-> name]
    /\ UNCHANGED <<runs_file, export_file, clock, global_state, exec_df, exec_cux_df,
                   conversation, data_loaded, calls, turns>>

\* _call_tool('load_data', {'path': path}); exists is os.path.exists(path)
CallLoadData ==
    /\ calls < MaxCalls
    /\ calls' = calls + 1
    /\ \E path \in Paths, exists \in BOOLEAN,
          reply \in {ModelFault("raises"),
                     Program(<<Bind("cux_df", Obj("cux_df"))>>, "returns")} :
       \E ret \in {call_tool(Self, "load_data", Dict(<<Pair(Str("path"), Str(path))>>),
                              reply, clock, [AllSucceed EXCEPT !.path_exists = exists])} :
            /\ global_state' = ret.global_state
            /\ exec_df' = ret.df
            /\ exec_cux_df' = ret.cux_df
            /\ runs_file' = ret.runs_file
            /\ data_loaded' = ret.data_loaded
            /\ last' = [op |-> "call_tool", tool_name |-> "load_data",
                        path |-> path, exists |-> exists,
                        code |-> reply.kind, response |-> ret.response]
    /\ UNCHANGED <<export_file, clock, conversation, uploaded_files, turns>>

ResolveNext ==
    \/ UploadFile
    \/ CallLoadData
    \/ Tick

ResolveSpec == Init /\ [][ResolveNext]_vars

(***************************************************************************)
(* Properties.                                                             *)
(***************************************************************************)
IsPrefix(a, b) == Len(a) <= Len(b) /\ SubSeq(b, 1, Len(a)) = a

\* after holds what before held, in the same order, and one element more
OneMore(before, after) == Len(after) = Len(before) + 1 /\ IsPrefix(before, after)

Newest(records) == records[Len(records)]

Field(record, key) == DictGet(record, Str(key), Unbound)

\* C1: every save_experiment call leaves load_all_experiments one record longer,
\* the records saved before it still first and in their order, and the record
\* it added is the saved one with a timestamp and a date field. (The code does
\* not do this for a record that json.dumps rejects.)
C1_EverySaveLoadsBack ==
    [][last'.op = "save_experiment" =>
        /\ OneMore(load_all_experiments(runs_file), load_all_experiments(runs_file'))
        /\ DictHas(Newest(load_all_experiments(runs_file')), Str("timestamp"))
        /\ DictHas(Newest(load_all_experiments(runs_file')), Str("date"))
        /\ Field(Newest(load_all_experiments(runs_file')), "task")
             = Field(last'.arg, "task")]_vars

\* C2: whatever store operation other than clear_all is called (the
\* construction of an agent calls clear_all), what load_all_experiments
\* returned before the call is a prefix of what it returns after it: no record
\* already in the log is changed, removed or reordered.
C2_LoadedRecordsStayAPrefix ==
    [][last'.op \notin {"clear_all", "VizChatAgent"} =>
        IsPrefix(load_all_experiments(runs_file), load_all_experiments(runs_file'))]_vars

\* a save has just been added to a log that already held a record
C2_SavedAfterEarlierRecords ==
    /\ last.op = "save_experiment"
    /\ ~last.raised
    /\ Len(load_all_experiments(runs_file)) >= 2

\* C3: every execute_tool call (the log being writable) appends exactly one
\* record, whatever the generated code did, and the record's task, parameters
\* and success flag are the call's tool name, its keyword arguments and the
\* executor's success flag. (The code appends nothing when the generated code
\* raises SystemExit.)
C3_EveryCallAppendsOneRecord ==
    [][last'.op = "execute_tool" /\ last'.write_ok =>
        /\ OneMore(load_all_experiments(runs_file), load_all_experiments(runs_file'))
        /\ Field(Newest(load_all_experiments(runs_file')), "task")
             = Str(last'.tool_name)
        /\ Field(Newest(load_all_experiments(runs_file')), "parameters")
             = last'.kwargs
        /\ Field(Newest(load_all_experiments(runs_file')), "success")
             = Bool(last'.result.success)]_vars

\* C4: an execute_tool call whose generated code faults while it runs leaves
\* global_state with the same names bound to the same values as before the
\* call.
C4_FaultLeavesNamespaceUnchanged ==
    [][last'.op = "execute_tool" /\ last'.fault # "none" =>
        global_state' = global_state]_vars

\* the code of the last call rebound a name of the namespace to another value
\* and then faulted
C4_FaultAfterRebinding ==
    /\ last.op = "execute_tool"
    /\ last.fault # "none"
    /\ \E name \in Names :
        /\ last.bound[name] # Unbound
        /\ global_state[name] # Unbound
        /\ global_state[name] # last.bound[name]

\* C5 as stated: after an execute_tool call whose code executed successfully,
\* global_state is its value before the call overlaid with the bindings the code
\* made and nothing else. (The code also merges the names the executor put into
\* the local namespace.)
C5_NamespaceIsOverlayOfCodeBindings ==
    [][last'.op = "execute_tool" /\ ~last'.exec_raised /\ last'.result.success =>
        global_state' = [name \in Names |->
                            IF last'.bound[name] # Unbound THEN last'.bound[name]
                            ELSE global_state[name]]]_vars

\* C5: after an execute_tool call whose code executed successfully, every name
\* the code left bound has the code's value in global_state; every other name
\* bound before the call keeps its value, except that _dashboard_file is rebound
\* to the new export path when a dashboard was exported; and the only names
\* added besides the code's are df and cux_df, bound to the executor's retained
\* handles, and _dashboard_file, bound to the export path.
C5_NamespaceIsOverlayOfReturnedNamespace ==
    [][last'.op = "execute_tool" /\ ~last'.exec_raised /\ last'.result.success =>
        \A name \in Names :
            CASE last'.bound[name] # Unbound ->
                    global_state'[name] = last'.bound[name]
              [] last'.bound[name] = Unbound /\ global_state[name] # Unbound ->
                    \/ global_state'[name] = global_state[name]
                    \/ /\ name = "_dashboard_file"
                       /\ last'.result.output.export = "exported"
                       /\ global_state'[name] = DashboardPath(clock)
              [] OTHER ->
                    \/ global_state'[name] = Unbound
                    \/ name = "df" /\ global_state'[name] = exec_df
                    \/ name = "cux_df" /\ global_state'[name] = exec_cux_df
                    \/ /\ name = "_dashboard_file"
                       /\ last'.result.output.export = "exported"
                       /\ global_state'[name] = DashboardPath(clock)]_vars

\* the second call succeeded, bound one name, and a name that an earlier call's
\* code had bound is still bound to its handle
C5_SecondCallKeepsEarlierNames ==
    /\ last.op = "execute_tool"
    /\ calls = 2
    /\ ~last.exec_raised
    /\ last.result.success
    /\ \E bound_now, bound_before \in CodeNames :
        /\ bound_now # bound_before
        /\ last.bound[bound_now] # Unbound
        /\ last.bound[bound_before] = Unbound
        /\ global_state[bound_before] \notin {Unbound, PyNone}

\* C6: an execute_tool call with a tool name that has no generator template
\* (the log being writable) appends exactly one record whose success is false
\* and whose error is a non-empty string. (The code records success = true and
\* no error.)
C6_UnknownToolRecordsFailure ==
    [][last'.op = "execute_tool" /\ last'.tool_name \notin TaskPrompts
       /\ last'.write_ok =>
        /\ OneMore(load_all_experiments(runs_file), load_all_experiments(runs_file'))
        /\ Field(Newest(load_all_experiments(runs_file')), "success") = Bool(FALSE)
        /\ Field(Newest(load_all_experiments(runs_file')), "error").t = "str"
        /\ IsTruthy(Field(Newest(load_all_experiments(runs_file')), "error"))]_vars

\* C7: when model-generated code completes normally, the execution result's
\* results and the results of the record appended for the call are the mapping
\* the code bound to the name results, and the empty mapping when neither the
\* code nor the namespace bound that name. (The result carries no results and
\* the record always holds the empty mapping.)
C7_ResultsReachResultAndRecord ==
    [][/\ last'.op = "execute_tool"
       /\ last'.code = "model_code"
       /\ last'.write_ok
       /\ ~last'.exec_raised
       /\ last'.result.success
       /\ last'.bound["results"] # Unbound \/ global_state["results"] = Unbound
       =>
        LET R == IF last'.bound["results"] # Unbound THEN last'.bound["results"]
                 ELSE Dict(<<>>)
        IN  /\ ResultGet(last'.result, "results", Dict(<<>>)) = R
            /\ Len(load_all_experiments(runs_file')) > 0
            /\ Field(Newest(load_all_experiments(runs_file')), "results") = R]_vars

\* C8: when the generated code faults while it runs, with whatever class of
\* exception, execute_code does not raise: it returns a result with success
\* false, an error text, a stack trace and the output printed before the fault.
\* (SystemExit leaves execute_code.)
C8_ExecuteCodeNeverRaises ==
    [][last'.op = "execute_tool" /\ last'.fault # "none" =>
        /\ ~last'.exec_raised
        /\ ~last'.result.success
        /\ IsTruthy(last'.result.error)
        /\ IsTruthy(last'.result.traceback)
        /\ last'.result.output.stdout = last'.printed]_vars

\* C9: every chat call returns a text and leaves the conversation extended by
\* the user message and then one assistant message holding that text, after the
\* system message when the conversation was empty. (A SystemExit raised by the
\* generated code leaves chat after the user message was appended.)
C9_EveryTurnIsAnswered ==
    [][last'.op = "chat" =>
        LET before == IF conversation = <<>> THEN <<SystemMessage>> ELSE conversation
        IN  /\ ~last'.raised
            /\ last'.returned.kind # "none"
            /\ Len(conversation') = Len(before) + 2
            /\ IsPrefix(before, conversation')
            /\ conversation'[Len(before) + 1].role = "user"
            /\ conversation'[Len(before) + 2] = AssistantMessage(last'.returned)]_vars

\* C10: one chat call invokes execute_tool at most once and appends at most one
\* record, however many tool calls the model's reply lists, and when chat
\* returns the tool's response the record has been appended and the result's
\* namespace merged into global_state.
C10_OneInvocationPerTurn ==
    [][last'.op = "chat" =>
        /\ calls' = calls + last'.invocations
        /\ last'.invocations <= 1
        /\ Len(runs_file') <= Len(runs_file) + 1
        /\ IsPrefix(runs_file, runs_file')
        /\ last'.returned.kind = "tool_response" =>
            /\ last'.invocations = 1
            /\ OneMore(runs_file, runs_file')
            /\ last'.result.success =>
                \A name \in Names :
                    last'.result.globals[name] # Unbound =>
                        global_state'[name] = last'.result.globals[name]]_vars

\* the model listed two tool calls, the first ran and bound cux_df, and chat
\* returned its response
C10_TwoToolCallsListed ==
    /\ last.op = "chat"
    /\ last.requested = 2
    /\ last.invocations = 1
    /\ last.returned.kind = "tool_response"
    /\ last.result.success
    /\ global_state["cux_df"] = Obj("cux_df")
    /\ Len(runs_file) >= 1

\* C11: when a line that is no parseable JSON appears anywhere in the log,
\* load_all_experiments still returns the records of all the other lines, in
\* file order.
C11_CorruptLineIsSkipped ==
    [][last'.op = "damage_log" =>
        /\ Len(runs_file') = Len(runs_file) + 1
        /\ load_all_experiments(runs_file')
             = [i \in 1..Len(runs_file) |-> runs_file[i].doc]]_vars

\* the unparseable line stands between two records
C11_CorruptLineBetweenRecords ==
    /\ last.op = "damage_log"
    /\ last.line = CorruptLine
    /\ Len(runs_file) = 3
    /\ last.at = 1

\* C12: for every log and every integer limit, get_recent_experiments(limit)
\* returns at most limit records, their timestamps never increasing, and no
\* record without a timestamp before a record that has one; a limit below zero
\* is read as asking for no record. (With a negative limit the slice
\* experiments[:limit] drops records from the end instead, so records come
\* back.)
C12_RecentReturnsAtMostLimit ==
    [][last'.op = "get_recent_experiments" =>
        /\ Len(last'.ret) <= Max(last'.arg, 0)
        /\ \A i, j \in 1..Len(last'.ret) :
            i < j =>
                /\ DictHas(last'.ret[j], Str("timestamp"))
                     => DictHas(last'.ret[i], Str("timestamp"))
                /\ DictHas(last'.ret[i], Str("timestamp"))
                   /\ DictHas(last'.ret[j], Str("timestamp"))
                     => Field(last'.ret[i], "timestamp").n
                          >= Field(last'.ret[j], "timestamp").n]_vars

\* the score the metric gives a record, doubled: num_filters + 0.5 * num_charts
\* for interactivity, num_charts for completeness, otherwise results[metric];
\* what is absent or no number counts 0
ClaimedScore(record, metric_name) ==
    LET count(key) ==
            IF DictGet(ResultsOf(record), Str(key), Num(0)).t = "num"
            THEN DictGet(ResultsOf(record), Str(key), Num(0)).n ELSE 0
    IN  CASE metric_name = "interactivity" -> 2 * count("num_filters") + count("num_charts")
          [] metric_name = "completeness" -> 2 * count("num_charts")
          [] OTHER -> 2 * count(metric_name)

\* C13: on a non-empty log find_best_dashboard returns, for every metric name,
\* a record whose score is the greatest of all records and which is the first
\* in file order among those; on an empty log it returns None. (The code
\* raises TypeError when the metric's values are not all numbers, and returns
\* None when every value is null.)
C13_BestIsFirstMaximum ==
    [][last'.op = "find_best_dashboard" =>
        LET experiments == load_all_experiments(runs_file) IN
        IF experiments = <<>> THEN last'.ret = PyNone
        ELSE \E i \in 1..Len(experiments) :
                /\ last'.ret = experiments[i]
                /\ \A j \in 1..Len(experiments) :
                    /\ ClaimedScore(experiments[j], last'.arg)
                         <= ClaimedScore(experiments[i], last'.arg)
                    /\ j < i => ClaimedScore(experiments[j], last'.arg)
                                  < ClaimedScore(experiments[i], last'.arg)]_vars

\* C14: after clear_all, and after the construction of a VizChatAgent, whatever
\* the log held, load_all_experiments returns the empty sequence and
\* count_experiments returns 0.
C14_ClearedLogIsEmpty ==
    [][last'.op \in {"clear_all", "VizChatAgent"} =>
        /\ load_all_experiments(runs_file') = <<>>
        /\ count_experiments(runs_file') = 0]_vars

\* an agent has been constructed on a log of two records and a corrupt line
C14_AgentConstructedOnFullLog ==
    /\ last.op = "VizChatAgent"
    /\ Len(last.log) = MaxLog + 1
    /\ count_experiments(last.log) = MaxLog
    /\ runs_file = <<>>

\* C15: the file export_experiments_to_json writes parses to a list that is,
\* element by element and in order, what load_all_experiments returned from
\* the log at that time, and the export leaves the log as it was.
C15_ExportEqualsLoadedRecords ==
    [][last'.op = "export_experiments_to_json" =>
        /\ export_file'.parseable
        /\ export_file'.doc.t = "list"
        /\ export_file'.doc.items = load_all_experiments(runs_file)
        /\ runs_file' = runs_file]_vars

\* a log of two different records and a corrupt line has been exported
C15_ExportedTwoRecords ==
    /\ last.op = "export_experiments_to_json"
    /\ Len(runs_file) = MaxLog + 1
    /\ Len(export_file.doc.items) = MaxLog
    /\ export_file.doc.items[1] # export_file.doc.items[2]

\* C16: whatever the parameters and results of a record hold, at any depth
\* (values json cannot serialize, mappings keyed by something else than a
\* string, tuples), save_experiment does not raise and appends exactly one
\* line, which parses. (The code raises TypeError for a mapping keyed by a
\* tuple and appends nothing.)
C16_SaveAppendsWhateverTheShape ==
    [][last'.op = "save_experiment" =>
        /\ ~last'.raised
        /\ Len(runs_file') = Len(runs_file) + 1
        /\ runs_file'[Len(runs_file')].parseable
        /\ JsonSerializable(runs_file'[Len(runs_file')].doc)]_vars

\* C17: for every log, the empty one included, the mapping
\* get_experiment_summary returns has the total, successful and failed counts,
\* the success rate, and the chart, layout and theme usage. (On the empty log
\* the code returns a mapping without the success rate.)
C17_SummaryHasEveryEntry ==
    [][last'.op = "get_experiment_summary" =>
        \A key \in {"total_experiments", "successful_experiments",
                    "failed_experiments", "success_rate",
                    "chart_usage", "layout_usage", "theme_usage"} :
            DictHas(last'.ret, Str(key))]_vars

\* C18: generate_code returns a code text for every task name, every set of
\* keyword parameters and every outcome of the model call; when the model
\* call raised or its reply had no choices, the text is the stub, the whole
\* error description is in its comment, and running it binds results. (The
\* code puts only the first line of the description in the comment; the other
\* lines follow as code and the stub does not compile.)
C18_FaultGivesStubBindingResults ==
    [][last'.op = "execute_tool" /\ last'.message # <<>> =>
        /\ last'.code = "generation_failed_stub"
        /\ last'.comment = last'.message
        /\ last'.bound["results"] # Unbound]_vars

\* C19: when the run of an execute_tool call fails, the text the call returns
\* holds the error, the stack trace and the generated code that was run. (The
\* text built for a failure has the error and the trace only.)
C19_FailureTextHasErrorTraceAndCode ==
    [][/\ last'.op = "execute_tool"
       /\ last'.response.kind = "tool_response"
       /\ last'.response.header = "failed"
       => /\ last'.response.error = last'.result.error
          /\ last'.response.traceback = Traceback
          /\ last'.response.code = Str(last'.code)]_vars

\* C20: when code that ran to its end has bound a dashboard object, under the
\* name dashboard or under the name d the create_dashboard template asks for,
\* the executor tries to export it during that execution and the output tells
\* the outcome. (The executor looks for the name dashboard only.)
C20_BoundDashboardIsExported ==
    [][/\ last'.op = "execute_tool"
       /\ last'.fault = "none"
       /\ ~last'.exec_raised
       /\ last'.result.success
       /\ \/ HasExport(last'.bound["dashboard"])
          \/ HasExport(last'.bound["d"])
       => last'.result.output.export \in {"exported", "failed"}]_vars

\* C21: when generated code that bound a dashboard runs to its end and the
\* export step does not succeed (dashboard.export raises, or the output
\* directory cannot be created), execute_code still returns success with an
\* output line telling the export failure, and the bindings the code made are
\* in the persistent namespace afterwards. (A directory that cannot be created
\* makes the whole execution a failure.)
C21_ExportFailureIsStillSuccess ==
    [][/\ last'.op = "execute_tool"
       /\ last'.fault = "none"
       /\ last'.bound["dashboard"] # Unbound
       /\ ~(last'.result.success /\ last'.result.output.export = "exported")
       => /\ last'.result.success
          /\ last'.result.output.export = "failed"
          /\ \A name \in Names :
                last'.bound[name] # Unbound => global_state'[name] = last'.bound[name]]_vars

\* C22: at every point of an export, the file at the target path holds its
\* whole previous content (or does not exist yet) or the whole new JSON array,
\* never an empty or partial text. (The code opens the target with 'w', which
\* empties it before the first piece is written.)
C22_TargetIsNeverPartial ==
    export_file = NoFile \/ export_file.parseable

\* the path without its file extension (os.path.splitext), for the paths of
\* the model
WithoutExtension(path) ==
    CASE path = "sales.csv" -> "sales"
      [] path = "sales.v2.csv" -> "sales.v2"
      [] path = "sales.v2.json" -> "sales.v2"
      [] path = "budget.csv" -> "budget"
      [] OTHER -> path

\* C23: a load_data call whose path is no existing file reaches the
\* orchestrator with the table's entry for the path when the path is a key,
\* otherwise with the entry for the path without its extension when that is a
\* key, otherwise with the path as it was. (The code looks up the text before
\* the first dot, so sales.v2.json is resolved through the key sales.)
C23_PathResolvedExactThenWithoutExtension ==
    [][last'.op = "call_tool" /\ ~last'.exists =>
        Field(Field(Newest(load_all_experiments(runs_file')), "parameters"), "path")
          = IF DictHas(uploaded_files, Str(last'.path))
            THEN DictGet(uploaded_files, Str(last'.path), PyNone)
            ELSE IF DictHas(uploaded_files, Str(WithoutExtension(last'.path)))
                 THEN DictGet(uploaded_files, Str(WithoutExtension(last'.path)), PyNone)
                 ELSE Str(last'.path)]_vars

\* C24: a turn whose tool call names show_history, help or a name that is no
\* declared tool is answered without the code generator and the executor: no
\* record is appended to the log, and the persistent namespace and the
\* executor's retained handles stay as they were.
C24_LocalToolsLeaveStateAlone ==
    [][/\ last'.op = "chat"
       /\ last'.requested > 0
       /\ last'.tool \notin OrchestratorTools
       => /\ last'.invocations = 0
          /\ runs_file' = runs_file
          /\ global_state' = global_state
          /\ exec_df' = exec_df
          /\ exec_cux_df' = exec_cux_df]_vars

\* show_history has been answered in a session that had already run code
C24_HistoryShownAfterARun ==
    /\ last.op = "chat"
    /\ last.tool = "show_history"
    /\ last.returned.kind = "history"
    /\ Len(runs_file) = 1
    /\ global_state["cux_df"] # Unbound

\* the sum of the counts of a tally
RECURSIVE SumOfCounts(_, _)
SumOfCounts(counts, i) ==
    IF i > Len(counts.items) THEN 0
    ELSE counts.items[i].v.n + SumOfCounts(counts, i + 1)

\* the chart entries of the records, as <<record, entry>> positions, and the
\* type of each
ChartEntries(experiments) ==
    {e \in (1..Len(experiments)) \X (1..MaxLog + 1) :
        e[2] <= Len(DictGet(ResultsOf(experiments[e[1]]), Str("charts"), List(<<>>)).items)}

ChartTypeAt(experiments, e) ==
    DictGet(DictGet(ResultsOf(experiments[e[1]]), Str("charts"), List(<<>>)).items[e[2]],
            Str("type"), Str("unknown"))

\* counts is the tally of value(x) over the x of domain: every key is the value
\* of some x, no key stands twice, and the count of a value is the number of x
\* that have it
IsTallyOf(counts, domain, value(_)) ==
    /\ \A i \in 1..Len(counts.items) : \E x \in domain : value(x) = counts.items[i].k
    /\ \A i, j \in 1..Len(counts.items) :
            counts.items[i].k = counts.items[j].k => i = j
    /\ \A x \in domain :
            DictGet(counts, value(x), Num(0)).n
              = Cardinality({y \in domain : value(y) = value(x)})

\* C25: the chart tally gives each chart type the number of chart entries of
\* that type over all records, an entry without a type counting as "unknown";
\* the layout and the theme tally count every record once, a record without
\* the value as "unknown", so that their counts sum to count_experiments().
C25_TalliesCountEveryOccurrenceOnce ==
    [][LET experiments == load_all_experiments(runs_file)
           chart_type(e) == ChartTypeAt(experiments, e)
           layout(i) == DictGet(ResultsOf(experiments[i]), Str("layout"), Str("unknown"))
           theme(i) == DictGet(ResultsOf(experiments[i]), Str("theme"), Str("unknown"))
       IN  /\ last'.op = "get_chart_usage_stats" =>
                IsTallyOf(last'.ret, ChartEntries(experiments), chart_type)
           /\ last'.op = "get_layout_usage_stats" =>
                /\ IsTallyOf(last'.ret, 1..Len(experiments), layout)
                /\ SumOfCounts(last'.ret, 1) = count_experiments(runs_file)
           /\ last'.op = "get_theme_usage_stats" =>
                /\ IsTallyOf(last'.ret, 1..Len(experiments), theme)
                /\ SumOfCounts(last'.ret, 1) = count_experiments(runs_file)]_vars

\* the charts of two records have been tallied: two bars and two entries
\* without a type
C25_TwoBarsAndTwoUnknownTallied ==
    /\ last.op = "get_chart_usage_stats"
    /\ DictGet(last.ret, Str("bar"), Num(0)) = Num(2)
    /\ DictGet(last.ret, Str("unknown"), Num(0)) = Num(2)
    /\ get_layout_usage_stats(runs_file) = Dict(<<Pair(Str("two_by_two"), Num(2))>>)

\* C26: after any sequence of execute_tool calls, the state description the
\* next call passes to the generator says "Not loaded" for the data handle
\* exactly when no successful invocation has left cux_df bound to a handle
\* (the executor retains none). (After a successful invocation whose code
\* never touched cux_df the namespace holds cux_df = None, and the description
\* says the DataFrame exists.)
C26_NotLoadedUntilAHandleIsBound ==
    (get_state_description(global_state).cux_df = "Not loaded") <=> (exec_cux_df = PyNone)

\* C27: the dashboard_file of a successful result, which the response shows
\* as "Dashboard saved to", names the file an export of that same invocation
\* wrote; an invocation without a successful export has no dashboard file in
\* its result, whatever was exported before. (The path of an earlier export
\* stays in the namespace and is reported again.)
C27_DashboardFileIsFromThisInvocation ==
    [][/\ last'.op = "execute_tool"
       /\ last'.result.success
       /\ IsTruthy(last'.result.dashboard_file)
       => /\ last'.result.output.export = "exported"
          /\ last'.result.dashboard_file = DashboardPath(clock)]_vars

\* C28: the data_loaded flag becomes true only in a turn whose load_data
\* invocation ran code written by the model with success and left a data
\* handle bound to cux_df in the persistent namespace; a load_data call that
\* failed or ran the generation-failure stub does not set it. (The flag follows
\* the check mark of the response, which every successful run carries.)
C28_DataLoadedOnlyAfterDataWasLoaded ==
    [][/\ last'.op = "chat"
       /\ ~data_loaded
       /\ data_loaded'
       => /\ last'.tool = "load_data"
          /\ last'.result.success
          /\ Field(Newest(load_all_experiments(runs_file')), "code") = Str("model_code")
          /\ global_state'["cux_df"] = Obj("cux_df")]_vars

\* C29: get_recent_experiments(k) returns the last k saved records, the most
\* recently saved first, also when saves got the same timestamp. (The sort is
\* stable, so records of equal timestamp come out in save order, the earlier
\* one first.)
C29_RecentIsReverseSaveOrder ==
    [][last'.op = "get_recent_experiments" /\ last'.arg >= 0 =>
        LET saved == load_all_experiments(runs_file)
            k == Min(last'.arg, Len(saved))
        IN  last'.ret = [i \in 1..k |-> saved[Len(saved) + 1 - i]]]_vars

\* C30: after every execute_tool call the executor's retained handles agree
\* with the persistent namespace: when the namespace binds df (cux_df) to a
\* value other than None, the executor's df (cux_df) is that value; and an
\* execution that failed changes neither retained handle.
C30_RetainedHandlesAgreeWithNamespace ==
    [][last'.op = "execute_tool" =>
        /\ global_state'["df"] \notin {Unbound, PyNone} => exec_df' = global_state'["df"]
        /\ global_state'["cux_df"] \notin {Unbound, PyNone}
              => exec_cux_df' = global_state'["cux_df"]
        /\ ~last'.result.success => exec_df' = exec_df /\ exec_cux_df' = exec_cux_df]_vars

\* a second call has rebound both handles: the namespace and the executor hold
\* the new ones
C30_BothHandlesRebound ==
    /\ last.op = "execute_tool"
    /\ calls = 2
    /\ global_state["df"] = Obj("df2")
    /\ global_state["cux_df"] = Obj("cux_df2")
    /\ exec_df = Obj("df2")
    /\ exec_cux_df = Obj("cux_df2")
    /\ Len(runs_file) = 2

====
